---- MODULE Spec2Model ----
(***************************************************************************)
(* A model of fast_der_regex: the VecAlloc arena (src/vec_alloc.rs), the   *)
(* builder tree (src/regex/build_plan.rs) and the arena-backed Brzozowski  *)
(* derivative engine (src/regex/mod.rs).                                   *)
(*                                                                         *)
(* Memory.  A VecAlloc owns one backing buffer.  resize() replaces the     *)
(* buffer, so every pointer handed out before it dangles.  The model keeps *)
(* a ghost generation number per VecAlloc (the identity of its current     *)
(* buffer) and a pointer is <<arena, generation, slot>>.  A pointer whose  *)
(* generation is not the arena's current one is dangling; reading through  *)
(* it is undefined behaviour, modelled as a nondeterministic outcome.      *)
(***************************************************************************)
EXTENDS Integers, Sequences, FiniteSets, TLC

VARIABLES va, issued, alast, text, plan, cap0, heap, regs, pc, obs

vars == <<va, issued, alast, text, plan, cap0, heap, regs, pc, obs>>
arenaVars == <<va, issued, alast>>
engineVars == <<text, plan, cap0, heap, regs, pc, obs>>

(***************************************************************************)
(* Bounds of the model.                                                    *)
(***************************************************************************)
MaxCap == 2
MaxArenaOps == 5
MaxGrows == 3
MaxNodes == 3
MaxLen == 3
MaxOps == 2
MaxSmallCap == 2

Alphabet == {"a", "b"}

(***************************************************************************)
(* regex::Re, the arena node (src/regex/mod.rs 9-17).  A node is a record  *)
(* of uniform shape; l and r are pointers (Const<Re>).                     *)
(***************************************************************************)
Null == [a |-> 0, g |-> 0, i |-> 0]
Ptr(arena, gen, idx) == [a |-> arena, g |-> gen, i |-> idx]

ReZero == [tag |-> "Zero", c |-> "", l |-> Null, r |-> Null]
ReOne == [tag |-> "One", c |-> "", l |-> Null, r |-> Null]
ReChar(ch) == [tag |-> "Char", c |-> ch, l |-> Null, r |-> Null]
ReAlt(p1, p2) == [tag |-> "Alt", c |-> "", l |-> p1, r |-> p2]
ReSeq(p1, p2) == [tag |-> "Seq", c |-> "", l |-> p1, r |-> p2]
ReStar(p1) == [tag |-> "Star", c |-> "", l |-> p1, r |-> Null]
\* The content of a slot that was never written, and what a read through a
\* dangling pointer is taken to be.
Uninit == [tag |-> "Uninit", c |-> "", l |-> Null, r |-> Null]

(***************************************************************************)
(* VecAlloc (src/vec_alloc.rs 87-155).                                     *)
(***************************************************************************)
\* RawBuf::new(capacity): a buffer of `capacity` unwritten slots.
RawBuf_new(capacity) == [i \in 0 .. capacity - 1 |-> Uninit]

VecAlloc_new(capacity) ==
    [buf |-> RawBuf_new(capacity), len |-> 0, gen |-> 0]

capacity(alloc) == Cardinality(DOMAIN alloc.buf)

\* A plausible slip: the bounds check lets a full allocator through, and the
\* write lands on the last slot.
alloc_off_by_one(va0, value) ==
    IF va0.len <= capacity(va0) /\ capacity(va0) > 0
    THEN LET slot == IF va0.len < capacity(va0) THEN va0.len ELSE va0.len - 1
         IN  [ok |-> TRUE,
              va |-> [va0 EXCEPT !.buf[slot] = value, !.len = slot + 1],
              idx |-> slot, back |-> Uninit]
    ELSE [ok |-> FALSE, va |-> va0, idx |-> 0, back |-> value]

\* A plausible slip: the occupancy is not advanced, so the next allocation
\* lands on the same slot.
alloc_no_advance(va0, value) ==
    IF va0.len < capacity(va0)
    THEN [ok |-> TRUE,
          va |-> [va0 EXCEPT !.buf[va0.len] = value],
          idx |-> va0.len, back |-> Uninit]
    ELSE [ok |-> FALSE, va |-> va0, idx |-> 0, back |-> value]

\* VecAlloc::alloc: Ok(pointer to slot len) or Err(value).
alloc(va0, value) ==
    IF va0.len < capacity(va0)
    THEN [ok |-> TRUE,
          va |-> [va0 EXCEPT !.buf[va0.len] = value, !.len = va0.len + 1],
          idx |-> va0.len, back |-> Uninit]
    ELSE [ok |-> FALSE, va |-> va0, idx |-> 0, back |-> value]

\* VecAlloc::resize: a new buffer of twice the capacity, occupancy zero.
resize(va0) ==
    [buf |-> RawBuf_new(capacity(va0) * 2), len |-> 0, gen |-> va0.gen + 1]

\* The record of a call on the arena under test: none yet.
NoCall == [op |-> "none", pre |-> VecAlloc_new(0), ok |-> TRUE, idx |-> 0,
           arg |-> Uninit, back |-> Uninit]

(***************************************************************************)
(* The heap: the sequence of every VecAlloc created so far; VecAlloc::new  *)
(* appends one.  Const<Re> (src/regex/const_ptr.rs) is a raw pointer: it   *)
(* is valid while the buffer it points into is the current buffer of its   *)
(* allocator and the slot has been written.                                *)
(***************************************************************************)
Valid(h, p) ==
    /\ p.a \in DOMAIN h
    /\ h[p.a].gen = p.g
    /\ p.i < h[p.a].len

\* Const::read / Const::as_ref.  Through a dangling pointer nothing is known
\* of the value: the callers below never get there with a valid tree, and the
\* actions take the undefined-behaviour step otherwise.
read(h, p) == IF Valid(h, p) THEN h[p.a].buf[p.i] ELSE Uninit

\* Const::ptr_eq
ptr_eq(p, q) == p = q

\* Re::nullable
RECURSIVE nullable(_, _)
nullable(h, re) ==
    CASE re.tag = "Zero" -> FALSE
      [] re.tag = "One" -> TRUE
      [] re.tag = "Char" -> FALSE
      [] re.tag = "Alt" -> nullable(h, read(h, re.l)) \/ nullable(h, read(h, re.r))
      [] re.tag = "Seq" -> nullable(h, read(h, re.l)) /\ nullable(h, read(h, re.r))
      [] re.tag = "Star" -> TRUE
      [] OTHER -> FALSE

\* A plausible slip: const_eq never finds two nodes equal.
const_eq_never(h, lhs, rhs) == FALSE

\* A plausible slip: Re::eq compares the variants only.
Re_eq_variant_only(h, x, y) == x.tag = y.tag

\* Re::eq and Re::const_eq: structural equality, pointer identity first.
RECURSIVE Re_eq(_, _, _)
const_eq(h, lhs, rhs) ==
    ptr_eq(lhs, rhs) \/ Re_eq(h, read(h, lhs), read(h, rhs))

Re_eq(h, x, y) ==
    CASE x.tag = "Zero" /\ y.tag = "Zero" -> TRUE
      [] x.tag = "One" /\ y.tag = "One" -> TRUE
      [] x.tag = "Char" /\ y.tag = "Char" -> x.c = y.c
      [] x.tag = "Alt" /\ y.tag = "Alt" ->
            const_eq(h, x.l, y.l) /\ const_eq(h, x.r, y.r)
      [] x.tag = "Seq" /\ y.tag = "Seq" ->
            const_eq(h, x.l, y.l) /\ const_eq(h, x.r, y.r)
      [] x.tag = "Star" /\ y.tag = "Star" -> const_eq(h, x.l, y.l)
      [] OTHER -> FALSE

\* fn try_alloc: allocate `value` in allocator d of the heap; Err(()) leaves
\* the allocator as it was.
try_alloc(h, d, value) ==
    LET res == alloc(h[d], value)
    IN  IF res.ok
        THEN [ok |-> TRUE, h |-> [h EXCEPT ![d] = res.va],
              p |-> Ptr(d, h[d].gen, res.idx)]
        ELSE [ok |-> FALSE, h |-> h, p |-> Null]

\* alloc.resized(): resize in place.
resized(h, d) == [h EXCEPT ![d] = resize(h[d])]

(***************************************************************************)
(* build_plan::Re, the builder tree (src/regex/build_plan.rs 1-9), owned   *)
(* boxes: a nested record.                                                 *)
(***************************************************************************)
PZero == [tag |-> "Zero"]
POne == [tag |-> "One"]
PChar(ch) == [tag |-> "Char", c |-> ch]
PAlt(x, y) == [tag |-> "Alt", l |-> x, r |-> y]
PSeq(x, y) == [tag |-> "Seq", l |-> x, r |-> y]
PStar(x) == [tag |-> "Star", l |-> x]

\* A plausible slip: the operands of seq exchanged.
RECURSIVE str_fold_swapped(_, _)
str_fold_swapped(r, cs) ==
    IF cs = <<>> THEN r
    ELSE str_fold_swapped(PSeq(PChar(Head(cs)), r), Tail(cs))

\* impl Into<Re> for &str, the loop: for c in iter { r = r.seq(c) }
RECURSIVE str_fold(_, _)
str_fold(r, cs) ==
    IF cs = <<>> THEN r
    ELSE str_fold(PSeq(r, PChar(Head(cs))), Tail(cs))

\* impl Into<Re> for &str: One for the empty string, else the first
\* character folded with the rest.
str_into(s) ==
    IF Len(s) = 0 THEN POne ELSE str_fold(PChar(Head(s)), Tail(s))

(***************************************************************************)
(* impl From<&build_plan::Re> for Regex: build_inner and its try_alloc     *)
(* closure.  On a failed allocation the closure resizes and calls          *)
(* build_inner on the root again, and the pointer that call returns is     *)
(* what the closure hands to the frame that was allocating.                *)
(***************************************************************************)
\* build_inner always returns a pointer (it has no error path).  The test
\* only fixes the order of evaluation: r1 is built before r2, r2 before the
\* node itself.
Returned(x) == x.p # Null

RECURSIVE build_inner(_, _, _, _)
build_try_alloc(h, d, root, value) ==
    LET res == alloc(h[d], value)
    IN  IF res.ok
        THEN [h |-> [h EXCEPT ![d] = res.va], p |-> Ptr(d, h[d].gen, res.idx)]
        ELSE build_inner(resized(h, d), d, root, root)

build_inner(h, d, root, bp) ==
    CASE bp.tag = "One" -> build_try_alloc(h, d, root, ReOne)
      [] bp.tag = "Zero" -> build_try_alloc(h, d, root, ReZero)
      [] bp.tag = "Char" -> build_try_alloc(h, d, root, ReChar(bp.c))
      [] bp.tag = "Alt" ->
            LET r1 == build_inner(h, d, root, bp.l)
            IN  IF ~Returned(r1) THEN r1
                ELSE LET r2 == build_inner(r1.h, d, root, bp.r)
                     IN  IF ~Returned(r2) THEN r2
                         ELSE build_try_alloc(r2.h, d, root, ReAlt(r1.p, r2.p))
      [] bp.tag = "Seq" ->
            LET r1 == build_inner(h, d, root, bp.l)
            IN  IF ~Returned(r1) THEN r1
                ELSE LET r2 == build_inner(r1.h, d, root, bp.r)
                     IN  IF ~Returned(r2) THEN r2
                         ELSE build_try_alloc(r2.h, d, root, ReSeq(r1.p, r2.p))
      [] bp.tag = "Star" ->
            LET r1 == build_inner(h, d, root, bp.l)
            IN  IF ~Returned(r1) THEN r1
                ELSE build_try_alloc(r1.h, d, root, ReStar(r1.p))

\* Regex::new(tree, alloc): the handle is the root pointer and the allocator.
Regex(tree, d) == [tree |-> tree, alloc |-> d]

\* A Regex in its heap: x is what a construction returned (the heap and the
\* root pointer), d the allocator it built in.  The operations below take and
\* return such a pair, x.h the heap and x.re the handle.
Self(x, d) == [h |-> x.h, re |-> Regex(x.p, d)]

\* From::from: a fresh allocator of the default capacity (cap), then
\* build_inner from the root.
From(h, bp, cap) ==
    Self(build_inner(Append(h, VecAlloc_new(cap)), Len(h) + 1, bp, bp), Len(h) + 1)

(***************************************************************************)
(* Regex::rebuild_with and Regex::clone: the deep copy.                    *)
(***************************************************************************)
RECURSIVE rebuild_with_rec(_, _, _, _)
rebuild_with_rec(h, d, r, root) ==
    LET n == read(h, r)
    IN  CASE n.tag \in {"Zero", "One", "Char"} -> try_alloc(h, d, n)
          [] n.tag \in {"Alt", "Seq"} ->
                LET r1 == rebuild_with_rec(h, d, n.l, root)
                IN  IF ~r1.ok THEN r1
                    ELSE LET r2 == rebuild_with_rec(r1.h, d, n.r, root)
                         IN  IF ~r2.ok THEN r2
                             ELSE try_alloc(r2.h, d,
                                    IF n.tag = "Alt" THEN ReAlt(r1.p, r2.p)
                                    ELSE ReSeq(r1.p, r2.p))
          [] n.tag = "Star" ->
                LET r1 == rebuild_with_rec(h, d, n.l, root)
                IN  IF ~r1.ok THEN r1 ELSE try_alloc(r1.h, d, ReStar(r1.p))

RECURSIVE rebuild_with(_, _, _)
rebuild_with(h, d, r) ==
    LET x == rebuild_with_rec(h, d, r, r)
    IN  IF x.ok THEN x ELSE rebuild_with(resized(x.h, d), d, r)

\* A plausible slip: the copy keeps the root pointer of its source (what
\* Regex::child does) instead of rebuilding the tree.
clone_shallow(x) ==
    [h |-> Append(x.h, VecAlloc_new(capacity(x.h[x.re.alloc]))),
     re |-> Regex(x.re.tree, Len(x.h) + 1)]

\* Regex::clone: a fresh allocator of the source's capacity, then
\* rebuild_with.
clone(x) ==
    Self(rebuild_with(Append(x.h, VecAlloc_new(capacity(x.h[x.re.alloc]))),
                      Len(x.h) + 1, x.re.tree),
         Len(x.h) + 1)

(***************************************************************************)
(* Regex::der_rec and Regex::der: the derivative, built in a fresh         *)
(* allocator d.  Err(()) (ok = FALSE) propagates with `?`; der resizes and *)
(* starts again from self.tree.                                            *)
(***************************************************************************)
\* A plausible slip: the test of the Char arm the wrong way round.
der_char_swapped(c, d) == IF c = d THEN ReZero ELSE ReOne

\* The node the Char(d) arm allocates.
der_char(c, d) == IF c = d THEN ReOne ELSE ReZero

\* A plausible slip: the Zero and One arms exchanged.
der_zero_as_one(h, d, r) == try_alloc(h, d, ReOne)

\* The Zero arm: Ok(r), the source's own node, nothing allocated.
der_zero(h, d, r) == [ok |-> TRUE, h |-> h, p |-> r]

\* A plausible slip: the Star arm returns the derivative of the inner
\* expression and drops the loop.
der_star_drops_loop(h, d, p1, r) == [ok |-> TRUE, h |-> h, p |-> p1]

\* The Star arm once the inner derivative p1 is made: Seq(p1, r), with r
\* the pointer to the Star node itself.
der_star(h, d, p1, r) == try_alloc(h, d, ReSeq(p1, r))

RECURSIVE der_rec(_, _, _, _, _)
der_rec(tree, h, d, r, c) ==
    LET n == read(h, r)
    IN  CASE n.tag = "Zero" -> der_zero(h, d, r)
          [] n.tag = "One" -> try_alloc(h, d, ReZero)
          [] n.tag = "Char" -> try_alloc(h, d, der_char(c, n.c))
          [] n.tag = "Alt" ->
                LET x1 == der_rec(tree, h, d, n.l, c)
                IN  IF ~x1.ok THEN x1
                    ELSE LET x2 == der_rec(tree, x1.h, d, n.r, c)
                         IN  IF ~x2.ok THEN x2
                             ELSE try_alloc(x2.h, d, ReAlt(x1.p, x2.p))
          [] n.tag = "Seq" ->
                IF nullable(h, read(h, n.l))
                THEN \* der(r1).r2 | der(r2)
                     LET x1 == der_rec(tree, h, d, n.l, c)
                     IN  IF ~x1.ok THEN x1
                         ELSE LET tmp == try_alloc(x1.h, d, ReSeq(x1.p, n.r))
                              IN  IF ~tmp.ok THEN tmp
                                  ELSE LET x2 == der_rec(tree, tmp.h, d, n.r, c)
                                       IN  IF ~x2.ok THEN x2
                                           ELSE try_alloc(x2.h, d, ReAlt(tmp.p, x2.p))
                ELSE LET x1 == der_rec(tree, h, d, n.l, c)
                     IN  IF ~x1.ok THEN x1
                         ELSE try_alloc(x1.h, d, ReSeq(x1.p, n.r))
          [] n.tag = "Star" ->
                LET x1 == der_rec(tree, h, d, n.l, c)
                IN  IF ~x1.ok THEN x1
                    ELSE der_star(x1.h, d, x1.p, r)

\* The loop of Regex::der.
RECURSIVE der_loop(_, _, _, _)
der_loop(h, d, tree, c) ==
    LET x == der_rec(tree, h, d, tree, c)
    IN  IF x.ok THEN x ELSE der_loop(resized(x.h, d), d, tree, c)

der(x, c, cap) ==
    Self(der_loop(Append(x.h, VecAlloc_new(cap)), Len(x.h) + 1, x.re.tree, c),
         Len(x.h) + 1)

(***************************************************************************)
(* Regex::simp_rec and Regex::simp.  simp_alt and simp_seq are the inner   *)
(* matches of the Alt and Seq arms, on the simplified children r1 and r2   *)
(* of the node n at r.                                                     *)
(***************************************************************************)
Ok(h, p) == [ok |-> TRUE, h |-> h, p |-> p]

\* A plausible slip: the Zero arms return the child as it was before it was
\* simplified.
simp_alt_stale_child(h, d, r, n, r1, r2) ==
    LET r1a == read(h, r1)
        r2a == read(h, r2)
    IN  IF r1a.tag = "Zero" THEN Ok(h, n.r)
        ELSE IF r2a.tag = "Zero" THEN Ok(h, n.l)
        ELSE IF Re_eq(h, r1a, r2a) THEN Ok(h, r1)
        ELSE IF const_eq(h, r1, n.l) /\ const_eq(h, r2, n.r) THEN Ok(h, r)
        ELSE try_alloc(h, d, ReAlt(r1, r2))

simp_alt(h, d, r, n, r1, r2) ==
    LET r1a == read(h, r1)
        r2a == read(h, r2)
    IN  IF r1a.tag = "Zero" THEN Ok(h, r2)
        ELSE IF r2a.tag = "Zero" THEN Ok(h, r1)
        ELSE IF Re_eq(h, r1a, r2a) THEN Ok(h, r1)
        ELSE IF const_eq(h, r1, n.l) /\ const_eq(h, r2, n.r) THEN Ok(h, r)
        ELSE try_alloc(h, d, ReAlt(r1, r2))

\* A plausible slip: the (Zero, _) and (_, Zero) arms are missing.
simp_seq_keeps_zero(h, d, r, n, r1, r2) ==
    LET r1a == read(h, r1)
        r2a == read(h, r2)
    IN  IF r1a.tag = "One" THEN Ok(h, r2)
        ELSE IF r2a.tag = "One" THEN Ok(h, r1)
        ELSE IF const_eq(h, r1, n.l) /\ const_eq(h, r2, n.r) THEN Ok(h, r)
        ELSE try_alloc(h, d, ReSeq(r1, r2))

\* A plausible slip: the (One, _) and (_, One) arms return the wrong side.
simp_seq_wrong_side(h, d, r, n, r1, r2) ==
    LET r1a == read(h, r1)
        r2a == read(h, r2)
    IN  IF r1a.tag = "Zero" THEN Ok(h, r1)
        ELSE IF r2a.tag = "Zero" THEN Ok(h, r2)
        ELSE IF r1a.tag = "One" THEN Ok(h, r1)
        ELSE IF r2a.tag = "One" THEN Ok(h, r2)
        ELSE IF const_eq(h, r1, n.l) /\ const_eq(h, r2, n.r) THEN Ok(h, r)
        ELSE try_alloc(h, d, ReSeq(r1, r2))

simp_seq(h, d, r, n, r1, r2) ==
    LET r1a == read(h, r1)
        r2a == read(h, r2)
    IN  IF r1a.tag = "Zero" THEN Ok(h, r1)
        ELSE IF r2a.tag = "Zero" THEN Ok(h, r2)
        ELSE IF r1a.tag = "One" THEN Ok(h, r2)
        ELSE IF r2a.tag = "One" THEN Ok(h, r1)
        ELSE IF const_eq(h, r1, n.l) /\ const_eq(h, r2, n.r) THEN Ok(h, r)
        ELSE try_alloc(h, d, ReSeq(r1, r2))

RECURSIVE simp_rec(_, _, _, _)
simp_rec(tree, h, d, r) ==
    LET n == read(h, r)
    IN  CASE n.tag = "Alt" ->
                LET x1 == simp_rec(tree, h, d, n.l)
                IN  IF ~x1.ok THEN x1
                    ELSE LET x2 == simp_rec(tree, x1.h, d, n.r)
                         IN  IF ~x2.ok THEN x2
                             ELSE simp_alt(x2.h, d, r, n, x1.p, x2.p)
          [] n.tag = "Seq" ->
                LET x1 == simp_rec(tree, h, d, n.l)
                IN  IF ~x1.ok THEN x1
                    ELSE LET x2 == simp_rec(tree, x1.h, d, n.r)
                         IN  IF ~x2.ok THEN x2
                             ELSE simp_seq(x2.h, d, r, n, x1.p, x2.p)
          [] OTHER -> Ok(h, r)

\* The loop of Regex::simp.
RECURSIVE simp_loop(_, _, _)
simp_loop(h, d, tree) ==
    LET x == simp_rec(tree, h, d, tree)
    IN  IF x.ok THEN x ELSE simp_loop(resized(x.h, d), d, tree)

simp(x, cap) ==
    Self(simp_loop(Append(x.h, VecAlloc_new(cap)), Len(x.h) + 1, x.re.tree),
         Len(x.h) + 1)

(***************************************************************************)
(* Regex::ders and Regex::is_match, the matching driver.                   *)
(***************************************************************************)
\* Regex::nullable
Regex_nullable(x) == nullable(x.h, read(x.h, x.re.tree))

\* A Regex value that an operation has returned (its root is set).  Testing
\* it evaluates the operation before the next one starts, as the let
\* bindings c1, c1s, ... of ders do.
Bound(x) == x.re.tree # Null

\* the let chain c1 = r.der(c1); c1s = c1.simp(); ... of the four-character
\* arm: n der/simp pairs over the first n characters of cs
RECURSIVE der_simp_chain(_, _, _, _)
der_simp_chain(x, cs, n, cap) ==
    IF n = 0 \/ ~Bound(x) THEN x
    ELSE der_simp_chain(simp(der(x, cs[1], cap), cap), Tail(cs), n - 1, cap)

RECURSIVE ders(_, _, _)
ders(x, cs, cap) ==
    IF ~Bound(x) THEN x
    ELSE IF read(x.h, x.re.tree).tag = "Zero" THEN x
    ELSE IF cs = <<>> THEN x
    ELSE IF Len(cs) >= 4
    THEN ders(clone(der_simp_chain(x, cs, 4, cap)), SubSeq(cs, 5, Len(cs)), cap)
    ELSE ders(clone(simp(der(x, cs[1], cap), cap)), Tail(cs), cap)

is_match(x, s, cap) == Regex_nullable(ders(clone(x), s, cap))

\* How many characters of cs ders has consumed when it returns: none where
\* it returns r (the Zero test, or cs empty), four more in the four-character
\* arm, one more in the last arm.
RECURSIVE ders_consumed(_, _, _)
ders_consumed(x, cs, cap) ==
    IF ~Bound(x) THEN 0
    ELSE IF read(x.h, x.re.tree).tag = "Zero" THEN 0
    ELSE IF cs = <<>> THEN 0
    ELSE IF Len(cs) >= 4
    THEN 4 + ders_consumed(clone(der_simp_chain(x, cs, 4, cap)),
                           SubSeq(cs, 5, Len(cs)), cap)
    ELSE 1 + ders_consumed(clone(simp(der(x, cs[1], cap), cap)), Tail(cs), cap)

(***************************************************************************)
(* Ghost operators on the heap, used to state properties.                  *)
(***************************************************************************)
\* Every pointer reachable from p is valid.
RECURSIVE WellFormed(_, _)
WellFormed(h, p) ==
    /\ Valid(h, p)
    /\ LET n == h[p.a].buf[p.i]
       IN  CASE n.tag \in {"Alt", "Seq"} -> WellFormed(h, n.l) /\ WellFormed(h, n.r)
             [] n.tag = "Star" -> WellFormed(h, n.l)
             [] OTHER -> TRUE

\* The pointers reachable from p, p included; a dangling pointer is a leaf.
RECURSIVE Reach(_, _)
Reach(h, p) ==
    {p} \cup
    (IF ~Valid(h, p) THEN {}
     ELSE LET n == h[p.a].buf[p.i]
          IN  CASE n.tag \in {"Alt", "Seq"} -> Reach(h, n.l) \cup Reach(h, n.r)
                [] n.tag = "Star" -> Reach(h, n.l)
                [] OTHER -> {})

\* The tree at p read back as a builder tree; a dangling pointer reads as a
\* leaf of its own kind.
RECURSIVE Unfold(_, _)
Unfold(h, p) ==
    IF ~Valid(h, p) THEN [tag |-> "Dangling"]
    ELSE LET n == h[p.a].buf[p.i]
         IN  CASE n.tag = "Zero" -> PZero
               [] n.tag = "One" -> POne
               [] n.tag = "Char" -> PChar(n.c)
               [] n.tag = "Alt" -> PAlt(Unfold(h, n.l), Unfold(h, n.r))
               [] n.tag = "Seq" -> PSeq(Unfold(h, n.l), Unfold(h, n.r))
               [] n.tag = "Star" -> PStar(Unfold(h, n.l))
               [] OTHER -> [tag |-> "Uninit"]

\* The number of nodes of a builder tree.
RECURSIVE NodeCount(_)
NodeCount(bp) ==
    CASE bp.tag \in {"Alt", "Seq"} -> 1 + NodeCount(bp.l) + NodeCount(bp.r)
      [] bp.tag = "Star" -> 1 + NodeCount(bp.l)
      [] OTHER -> 1

\* The regular language denoted by a builder tree: s \in L(bp).
RECURSIVE InLang(_, _)
InLang(bp, s) ==
    CASE bp.tag = "Zero" -> FALSE
      [] bp.tag = "One" -> s = <<>>
      [] bp.tag = "Char" -> s = <<bp.c>>
      [] bp.tag = "Alt" -> InLang(bp.l, s) \/ InLang(bp.r, s)
      [] bp.tag = "Seq" ->
            \E k \in 0 .. Len(s) :
                /\ InLang(bp.l, SubSeq(s, 1, k))
                /\ InLang(bp.r, SubSeq(s, k + 1, Len(s)))
      [] bp.tag = "Star" ->
            \/ s = <<>>
            \/ \E k \in 1 .. Len(s) :
                /\ InLang(bp.l, SubSeq(s, 1, k))
                /\ InLang(bp, SubSeq(s, k + 1, Len(s)))
      [] OTHER -> FALSE

(***************************************************************************)
(* The inputs: builder trees of at most MaxNodes nodes over Zero, One and  *)
(* the alphabet, the named patterns, and two patterns larger than the      *)
(* default capacity; strings of at most MaxLen characters and "aaab".      *)
(***************************************************************************)
DEFAULT_CAPACITY == 32

PLeaves == {PZero, POne} \cup {PChar(ch) : ch \in Alphabet}

RECURSIVE PlansOfSize(_)
PlansOfSize(n) ==
    IF n = 1 THEN PLeaves
    ELSE {PStar(x) : x \in PlansOfSize(n - 1)} \cup
         UNION {UNION {{PAlt(x, y), PSeq(x, y)} :
                         x \in PlansOfSize(k), y \in PlansOfSize(n - 1 - k)} :
                k \in 1 .. n - 2}

\* a*b and (a*)*b
AStarB == PSeq(PStar(PChar("a")), PChar("b"))
AStarStarB == PSeq(PStar(PStar(PChar("a"))), PChar("b"))
\* 0|1.a: a rewrite below a node that is itself rewritten.
ZeroOrOneA == PAlt(PZero, PSeq(POne, PChar("a")))
\* (a|b)*.a.b and (1|a).(a|0): a nullable head, so the derivative of a Seq
\* takes its Alt arm, and Zero and One to simplify away.
\* (1.a)*.(b|0): a Star whose inner expression could be rewritten.
StarOneAThenB ==
    PSeq(PStar(PSeq(POne, PChar("a"))), PAlt(PChar("b"), PZero))
NamedPlans ==
    {AStarB, AStarStarB, ZeroOrOneA, StarOneAThenB,
     PSeq(PStar(PAlt(PChar("a"), PChar("b"))), PSeq(PChar("a"), PChar("b"))),
     PSeq(PAlt(POne, PChar("a")), PAlt(PChar("a"), PZero))}

SmallPlans == UNION {PlansOfSize(n) : n \in 1 .. MaxNodes} \cup NamedPlans

\* The balanced alternation of 2^k copies of a: 2^(k+1) - 1 nodes.
RECURSIVE AltTree(_)
AltTree(k) ==
    IF k = 0 THEN PChar("a") ELSE PAlt(AltTree(k - 1), AltTree(k - 1))

\* ((a|..|a)|a).b, 35 nodes: allocation 33 is the root of the left operand.
BigLeft == PSeq(PAlt(AltTree(4), PChar("a")), PChar("b"))
\* (a|..|a)*.b, 34 nodes: allocation 33 is the right operand.
BigRight == PSeq(PStar(AltTree(4)), PChar("b"))
BigPlans == {BigLeft, BigRight}

SmallCaps == 1 .. MaxSmallCap

Strs ==
    UNION {[1 .. n -> Alphabet] : n \in 0 .. MaxLen} \cup {<<"a", "a", "a", "b">>}

(***************************************************************************)
(* The engine: a builder tree is compiled, then the public operations are  *)
(* applied to the latest Regex.  regs is the chain of Regex values made so *)
(* far (der and simp borrow from the one they were applied to, so all stay *)
(* alive), each with the operation that made it; obs is what the last call *)
(* returned.  cap0 is the capacity new allocators start at                 *)
(* (Regex::DEFAULT_CAPACITY, or a smaller one to force growth).            *)
(***************************************************************************)
NoObs == [op |-> "none", on |-> 0, s |-> <<>>, result |-> FALSE, ub |-> FALSE]

Made(re, op, from, ch) == [re |-> re, op |-> op, from |-> from, ch |-> ch]

Cur == regs[Len(regs)]

\* The latest Regex in the heap.
Here == [h |-> heap, re |-> Cur.re]

\* The latest Regex is a tree: the methods' SAFETY conditions hold of it.
Sound == WellFormed(heap, Cur.re.tree)

Init ==
    /\ \/ plan \in SmallPlans /\ cap0 \in SmallCaps \cup {DEFAULT_CAPACITY}
       \/ plan \in BigPlans /\ cap0 = DEFAULT_CAPACITY
    /\ text = <<>>
    /\ heap = <<>>
    /\ regs = <<>>
    /\ pc = "plan"
    /\ obs = NoObs
    /\ va = VecAlloc_new(0)
    /\ issued = <<>>
    /\ alast = NoCall

Compile ==
    /\ pc = "plan"
    /\ LET x == From(heap, plan, cap0)
       IN  /\ heap' = x.h
           /\ regs' = <<Made(x.re, "compile", 0, "")>>
    /\ pc' = "ready"
    /\ obs' = [NoObs EXCEPT !.op = "compile", !.on = 1]
    /\ UNCHANGED <<plan, cap0, arenaVars, text>>

DerStep ==
    /\ pc = "ready" /\ Len(regs) <= MaxOps /\ Sound
    /\ \E c \in Alphabet :
         LET x == der(Here, c, cap0)
         IN  /\ heap' = x.h
             /\ regs' = Append(regs, Made(x.re, "der", Len(regs), c))
    /\ obs' = [NoObs EXCEPT !.op = "der", !.on = Len(regs) + 1]
    /\ UNCHANGED <<plan, cap0, pc, arenaVars, text>>

SimpStep ==
    /\ pc = "ready" /\ Len(regs) <= MaxOps /\ Sound
    /\ LET x == simp(Here, cap0)
       IN  /\ heap' = x.h
           /\ regs' = Append(regs, Made(x.re, "simp", Len(regs), ""))
    /\ obs' = [NoObs EXCEPT !.op = "simp", !.on = Len(regs) + 1]
    /\ UNCHANGED <<plan, cap0, pc, arenaVars, text>>

CloneStep ==
    /\ pc = "ready" /\ Len(regs) <= MaxOps /\ Sound
    /\ LET x == clone(Here)
       IN  /\ heap' = x.h
           /\ regs' = Append(regs, Made(x.re, "clone", Len(regs), ""))
    /\ obs' = [NoObs EXCEPT !.op = "clone", !.on = Len(regs) + 1]
    /\ UNCHANGED <<plan, cap0, pc, arenaVars, text>>

\* is_match works on a clone and drops every Regex it makes; the run ends
\* with its answer.
IsMatchStep ==
    /\ pc = "ready" /\ Sound
    /\ \E s \in Strs :
         obs' = [op |-> "is_match", on |-> Len(regs), s |-> s,
                 result |-> is_match(Here, s, cap0), ub |-> FALSE]
    /\ pc' = "done"
    /\ UNCHANGED <<plan, cap0, heap, regs, arenaVars, text>>

\* is_match on a Regex with a dangling pointer: the clone reads every node,
\* so the call is undefined behaviour and returns anything (or does not
\* return: no further step is taken either way).
IsMatchUndefined ==
    /\ pc = "ready" /\ ~Sound
    /\ \E s \in Strs, b \in BOOLEAN :
         obs' = [op |-> "is_match", on |-> Len(regs), s |-> s,
                 result |-> b, ub |-> TRUE]
    /\ pc' = "ub"
    /\ UNCHANGED <<plan, cap0, heap, regs, arenaVars, text>>

\* der, simp or clone on a Regex with a dangling pointer: the SAFETY
\* conditions of der_rec, simp_rec and rebuild_with do not hold; the result
\* is not tracked.
OtherUndefined ==
    /\ pc = "ready" /\ ~Sound
    /\ \E op \in {"der", "simp", "clone"} :
         obs' = [NoObs EXCEPT !.op = op, !.on = Len(regs), !.ub = TRUE]
    /\ pc' = "ub"
    /\ UNCHANGED <<plan, cap0, heap, regs, arenaVars, text>>

Next ==
    \/ Compile
    \/ DerStep
    \/ SimpStep
    \/ CloneStep
    \/ IsMatchStep
    \/ IsMatchUndefined
    \/ OtherUndefined

Spec == Init /\ [][Next]_vars

(***************************************************************************)
(* The arena on its own: any sequence of alloc and resize calls on one     *)
(* VecAlloc.  issued logs every pointer handed out with the value written; *)
(* alast records the last call, the allocator before it and what it        *)
(* returned.                                                               *)
(***************************************************************************)
ArenaValues == {ReZero, ReOne}

EngineParked ==
    /\ text = <<>>
    /\ plan = PZero
    /\ cap0 = 0
    /\ heap = <<>>
    /\ regs = <<>>
    /\ pc = "parked"
    /\ obs = NoObs

ArenaInit ==
    /\ va \in {VecAlloc_new(n) : n \in 0 .. MaxCap}
    /\ issued = <<>>
    /\ alast = NoCall
    /\ EngineParked

ArenaAlloc ==
    /\ Len(issued) < MaxArenaOps
    /\ \E v \in ArenaValues :
         LET res == alloc(va, v)
         IN  /\ va' = res.va
             /\ issued' = IF res.ok
                          THEN Append(issued, [g |-> va.gen, i |-> res.idx, v |-> v])
                          ELSE issued
             /\ alast' = [op |-> "alloc", pre |-> va, ok |-> res.ok,
                          idx |-> res.idx, arg |-> v, back |-> res.back]
    /\ UNCHANGED engineVars

ArenaResize ==
    /\ va.gen < MaxGrows
    /\ va' = resize(va)
    /\ alast' = [op |-> "resize", pre |-> va, ok |-> TRUE, idx |-> 0,
                 arg |-> Uninit, back |-> Uninit]
    /\ UNCHANGED <<issued, engineVars>>

ArenaNext == ArenaAlloc \/ ArenaResize

ArenaSpec == ArenaInit /\ [][ArenaNext]_vars

(***************************************************************************)
(* Properties of the arena (checked under ArenaSpec).                      *)
(***************************************************************************)
\* C8: alloc fails exactly when occupancy equals capacity; on failure the
\* value is handed back and the allocator is unchanged (occupancy, capacity,
\* every slot); on success the value is in the slot at the old occupancy,
\* occupancy is one more, the reference addresses that slot, and nothing
\* else changed.
C8_AllocContract ==
    alast.op = "alloc" =>
        /\ ~alast.ok <=> alast.pre.len = capacity(alast.pre)
        /\ ~alast.ok => alast.back = alast.arg /\ va = alast.pre
        /\ alast.ok =>
             /\ alast.idx = alast.pre.len
             /\ va.len = alast.pre.len + 1
             /\ va.buf = [alast.pre.buf EXCEPT ![alast.pre.len] = alast.arg]
             /\ va.buf[alast.idx] = alast.arg
             /\ va.gen = alast.pre.gen

\* An allocation refused by a full allocator that holds values, and the
\* value handed back.
C8_Witness ==
    /\ alast.op = "alloc" /\ ~alast.ok
    /\ alast.pre.len = 2 /\ capacity(alast.pre) = 2
    /\ alast.back = ReOne /\ va.buf[1] = ReZero

\* C9: resize on an allocator of capacity n leaves capacity max(1, 2n) and
\* occupancy zero, for every n >= 0.
C9_GrowDoublesMinOne ==
    alast.op = "resize" =>
        /\ capacity(va) = IF capacity(alast.pre) = 0 THEN 1
                          ELSE 2 * capacity(alast.pre)
        /\ va.len = 0

\* C10: 0 <= occupancy <= capacity; every reference is issued with an index
\* below the occupancy; between two resizes no two allocations return the
\* same slot, and no issued slot is overwritten.
C10_ArenaInvariant ==
    /\ 0 <= va.len /\ va.len <= capacity(va)
    /\ alast.op = "alloc" /\ alast.ok => alast.idx < va.len
    /\ \A m \in DOMAIN issued :
         /\ issued[m].g = va.gen =>
              /\ issued[m].i < va.len
              /\ va.buf[issued[m].i] = issued[m].v
         /\ \A n \in DOMAIN issued :
              m # n => ~(issued[m].g = issued[n].g /\ issued[m].i = issued[n].i)

\* Two references of the current buffer holding different values, after a
\* reference of an earlier buffer.
C10_Witness ==
    /\ Len(issued) >= 3
    /\ issued[1].g < va.gen
    /\ \E m, n \in DOMAIN issued :
         /\ issued[m].g = va.gen /\ issued[n].g = va.gen
         /\ issued[m].v # issued[n].v
    /\ va.len = capacity(va)

(***************************************************************************)
(* Properties of the engine (checked under Spec).                          *)
(***************************************************************************)
\* The Regex at position k of the chain, in the current heap (allocators
\* are only ever added to the heap, and a finished one is not written).
At(k) == [h |-> heap, re |-> regs[k].re]

\* The Regex an is_match call was observed on.
Observed == regs[obs.on]

\* C1: compile(r).is_match(s) is true exactly when s is in the language of
\* r.  Stated of the calls that return without undefined behaviour.
C1_MatchIsMembership ==
    obs.op = "is_match" /\ obs.on = 1 /\ ~obs.ub =>
        obs.result = InLang(plan, obs.s)

\* C2: the derivative law.  For a Regex r (a tree: every reachable pointer
\* valid), a character c and a string s, is_match(r, c ++ s) is
\* is_match(r.der(c), s), and both say whether c ++ s is in the language of
\* the tree of r.
C2_DerivativeLaw ==
    obs.op = "is_match" /\ Observed.op = "der" =>
        /\ obs.result =
             is_match(At(Observed.from), <<Observed.ch>> \o obs.s, cap0)
        /\ obs.result =
             InLang(Unfold(heap, regs[Observed.from].re.tree),
                    <<Observed.ch>> \o obs.s)

\* a*b, its derivative by a, and "ab" accepted by the derivative.
C2_Witness ==
    /\ plan = AStarB /\ cap0 = DEFAULT_CAPACITY
    /\ obs.op = "is_match" /\ obs.on = 2
    /\ Observed.op = "der" /\ Observed.ch = "a"
    /\ obs.s = <<"a", "b">> /\ obs.result

\* C3: the simplifier preserves the language.  For a Regex r and a string
\* s, is_match(r.simp(), s) is is_match(r, s).
C3_SimpPreserves ==
    obs.op = "is_match" /\ Observed.op = "simp" =>
        obs.result = is_match(At(Observed.from), obs.s, cap0)

\* 1.a simplified to a (the root is no longer the source's), accepting "a".
C3_Witness ==
    /\ plan = PSeq(POne, PChar("a"))
    /\ obs.op = "is_match" /\ obs.on = 2 /\ Observed.op = "simp"
    /\ Observed.re.tree # regs[1].re.tree
    /\ obs.s = <<"a">> /\ obs.result

\* C4: compile returns a Regex whose arena tree is the builder tree, with
\* one arena node per builder node, whatever the initial capacity.
C4_CompileIsomorphic ==
    pc # "plan" =>
        /\ Unfold(heap, regs[1].re.tree) = plan
        /\ heap[regs[1].re.alloc].len = NodeCount(plan)

\* C5: when an operation returns, no reference reachable from the returned
\* root was issued by the destination allocator before one of its resizes.
C5_OneGeneration ==
    \A k \in DOMAIN regs :
        \A p \in Reach(heap, regs[k].re.tree) :
            p.a = regs[k].re.alloc => p.g = heap[p.a].gen

\* A capacity at which neither pattern set makes any allocator grow.
LargeCapacity == 4 * DEFAULT_CAPACITY

\* C6: is_match on the compiled Regex answers as it does when every
\* allocator starts large enough never to grow.
C6_GrowthTransparent ==
    obs.op = "is_match" /\ obs.on = 1 /\ ~obs.ub =>
        obs.result = is_match(From(<<>>, plan, LargeCapacity), obs.s, LargeCapacity)

child(x) ==
    [h |-> Append(x.h, VecAlloc_new(0)), re |-> Regex(x.re.tree, Len(x.h) + 1)]

ChildStep ==
    /\ pc = "ready" /\ Len(regs) <= MaxOps
    /\ heap' = child(Here).h
    /\ regs' = Append(regs, Made(child(Here).re, "child", Len(regs), ""))
    /\ obs' = [NoObs EXCEPT !.op = "child", !.on = Len(regs) + 1]
    /\ UNCHANGED <<plan, cap0, pc, arenaVars, text>>

\* clone: let mut alloc = VecAlloc::new(self.alloc.capacity())
CloneBegin ==
    /\ pc = "ready" /\ Sound
    /\ va' = VecAlloc_new(capacity(heap[Cur.re.alloc]))
    /\ pc' = "try"
    /\ obs' = [NoObs EXCEPT !.op = "clone", !.on = Len(regs)]
    /\ UNCHANGED <<text, plan, cap0, heap, regs, issued, alast>>

\* rebuild_with: match rebuild_with_rec(alloc, r, r)
CloneTry ==
    /\ pc = "try"
    /\ LET d == Len(heap) + 1
           x == rebuild_with_rec(Append(heap, va), d, Cur.re.tree, Cur.re.tree)
       IN  IF x.ok
           THEN /\ heap' = x.h
                /\ regs' = Append(regs, Made(Regex(x.p, d), "clone", Len(regs), ""))
                /\ pc' = "done"
                /\ va' = va
           ELSE /\ va' = x.h[d]
                /\ pc' = "grow"
                /\ UNCHANGED <<heap, regs>>
    /\ UNCHANGED <<text, plan, cap0, obs, issued, alast>>

\* Err(_) => Self::rebuild_with(alloc.resized(), r)
CloneGrow ==
    /\ pc = "grow"
    /\ va' = [resize(va) EXCEPT !.gen = 0]
    /\ pc' = "try"
    /\ UNCHANGED <<text, plan, cap0, heap, regs, obs, issued, alast>>

CloneNext ==
    \/ Compile
    \/ DerStep
    \/ SimpStep
    \/ ChildStep
    \/ CloneBegin
    \/ CloneTry
    \/ CloneGrow
    \/ OtherUndefined

CloneSpec == Init /\ [][CloneNext]_vars

\* C11: every operation runs to completion for every initial destination
\* capacity, capacity 0 included, because each allocation failure is
\* followed by a grow that strictly increases the capacity.  The source is
\* immutable and the destination is empty after a grow, so a grow that does
\* not increase the capacity puts the loop back where it was.
C11_GrowIncreasesCapacity ==
    [][pc = "grow" => capacity(va') > capacity(va)]_vars

(***************************************************************************)
(* Further properties of the engine (checked under Spec).                  *)
(***************************************************************************)
\* The variant of the root node of the Regex at position k.
RootTag(k) == read(heap, regs[k].re.tree).tag

\* The variant of the root the driver holds after consuming cs from x.
DriverTag(x, cs) == read(ders(clone(x), cs, cap0).h, ders(clone(x), cs, cap0).re.tree).tag

\* C12: absorption.  Once the root is Zero it stays Zero through every
\* further der and simp, and once the driver's root is Zero after a prefix
\* of the input, is_match of the whole input is false.
C12_Absorption ==
    /\ \A k \in DOMAIN regs :
         regs[k].op \in {"der", "simp"} /\ RootTag(regs[k].from) = "Zero" =>
             RootTag(k) = "Zero"
    /\ obs.op = "is_match" /\ ~obs.ub =>
         \A n \in 0 .. Len(obs.s) :
             DriverTag(At(obs.on), SubSeq(obs.s, 1, n)) = "Zero" => ~obs.result

\* 'a' derived by b is Zero; derived again by a it is the same Zero node,
\* and "ab" is rejected from there.
C12_Witness ==
    /\ plan = PChar("a") /\ Len(regs) = 3
    /\ regs[2].op = "der" /\ regs[2].ch = "b" /\ RootTag(1) = "Char"
    /\ regs[3].op = "der" /\ regs[3].ch = "a"
    /\ RootTag(2) = "Zero" /\ regs[3].re.tree = regs[2].re.tree
    /\ obs.op = "is_match" /\ obs.s = <<"a", "b">> /\ ~obs.result

\* The tree of the Regex at position k, read back.
TreeOf(k) == Unfold(heap, regs[k].re.tree)

\* C13: the simplifier is idempotent.  simp of a simp result is the same
\* tree, and is_match on it answers as on the simp result: by the language
\* of that tree.
C13_SimpIdempotent ==
    \A k \in DOMAIN regs :
        regs[k].op = "simp" /\ regs[regs[k].from].op = "simp" =>
            /\ TreeOf(k) = TreeOf(regs[k].from)
            /\ obs.op = "is_match" /\ obs.on = k =>
                 /\ obs.result = is_match(At(regs[k].from), obs.s, cap0)
                 /\ obs.result = InLang(TreeOf(regs[k].from), obs.s)

\* 0|1.a simplified to a, simplified again, and "a" accepted.
C13_Witness ==
    /\ plan = ZeroOrOneA /\ Len(regs) = 3
    /\ regs[2].op = "simp" /\ regs[3].op = "simp"
    /\ TreeOf(1) = plan /\ TreeOf(2) = PChar("a") /\ TreeOf(3) = PChar("a")
    /\ obs.op = "is_match" /\ obs.s = <<"a">> /\ obs.result

(***************************************************************************)
(* The string literal: a pattern text is converted to a builder tree       *)
(* (impl Into<Re> for &str), compiled and matched.                         *)
(***************************************************************************)
LiteralInit ==
    /\ text \in Strs
    /\ plan = PZero
    /\ cap0 \in SmallCaps \cup {DEFAULT_CAPACITY}
    /\ heap = <<>>
    /\ regs = <<>>
    /\ pc = "text"
    /\ obs = NoObs
    /\ va = VecAlloc_new(0)
    /\ issued = <<>>
    /\ alast = NoCall

Literal ==
    /\ pc = "text"
    /\ plan' = str_into(text)
    /\ pc' = "plan"
    /\ obs' = [NoObs EXCEPT !.op = "literal"]
    /\ UNCHANGED <<text, cap0, heap, regs, arenaVars>>

LiteralNext ==
    \/ Literal
    \/ Compile
    \/ IsMatchStep
    \/ IsMatchUndefined

LiteralSpec == LiteralInit /\ [][LiteralNext]_vars

\* c1.(c2.(... cn)), the right fold of a non-empty string.
RECURSIVE RightSeq(_)
RightSeq(s) ==
    IF Len(s) = 1 THEN PChar(s[1]) ELSE PSeq(PChar(s[1]), RightSeq(Tail(s)))

\* ((c1.c2). ...).cn, the left fold of a non-empty string.
RECURSIVE LeftSeq(_)
LeftSeq(s) ==
    IF Len(s) = 1 THEN PChar(s[1])
    ELSE PSeq(LeftSeq(SubSeq(s, 1, Len(s) - 1)), PChar(s[Len(s)]))

\* The empty string compiles to a Regex that matches "" and nothing else.
EmptyLiteralMatches ==
    text = <<>> /\ obs.op = "is_match" => obs.result = (obs.s = <<>>)

\* The original statement of C14: the tree of a string is the right fold
\* of its characters, Unit for the empty string.
C14_RightFold ==
    /\ pc # "text" => plan = IF text = <<>> THEN POne ELSE RightSeq(text)
    /\ EmptyLiteralMatches

\* C14 (as the code has it): the tree of a string is the left fold of its
\* characters, Seq(..Seq(Seq(c1, c2), c3).., cn); the empty string gives
\* Unit, and its Regex matches "" and no other string.
C14_LeftFold ==
    /\ pc # "text" => plan = IF text = <<>> THEN POne ELSE LeftSeq(text)
    /\ EmptyLiteralMatches

\* "aab" is (a.a).b, compiled at the default capacity, and accepts "aab".
C14_Witness ==
    /\ text = <<"a", "a", "b">>
    /\ plan = PSeq(PSeq(PChar("a"), PChar("a")), PChar("b"))
    /\ cap0 = DEFAULT_CAPACITY
    /\ obs.op = "is_match" /\ obs.s = text /\ obs.result

(***************************************************************************)
(* impl fmt::Debug for Re: the renderer.  The text is the sequence of its  *)
(* pieces; a character c is written 'c' (the {:?} form of a char).         *)
(***************************************************************************)
\* The Star arm, on the inner node and its {:?} text.
fmt_star(inner, body) ==
    IF inner.tag \in {"Seq", "Star"}
    THEN <<"(">> \o body \o <<")", "*">>
    ELSE body \o <<"*">>

\* A plausible slip: the (Alt, true) arm writes the parentheses too.
fmt_alt_unit_paren(left, right) == <<"(">> \o left \o <<"|">> \o right \o <<")">>

\* The (Alt, true) arm, on the {:?} texts of the operands.
fmt_alt_unit(left, right) == left \o <<"|">> \o right

RECURSIVE fmt_rec(_, _, _)
\* fmt: write!(f, "{}", fmt_rec(self, true)); this is what {:?} of a node is.
fmt(h, n) == fmt_rec(h, n, TRUE)

fmt_rec(h, n, unit) ==
    CASE n.tag = "Zero" -> <<"0">>
      [] n.tag = "One" -> <<"1">>
      [] n.tag = "Char" -> <<"'", n.c, "'">>
      [] n.tag = "Seq" ->
            fmt_rec(h, read(h, n.l), FALSE) \o <<".">> \o
            fmt_rec(h, read(h, n.r), FALSE)
      [] n.tag = "Alt" /\ ~unit ->
            <<"(">> \o fmt_rec(h, read(h, n.l), read(h, n.l).tag = "Alt")
                    \o <<"|">>
                    \o fmt_rec(h, read(h, n.r), read(h, n.r).tag = "Alt")
                    \o <<")">>
      [] n.tag = "Alt" /\ unit ->
            fmt_alt_unit(fmt(h, read(h, n.l)), fmt(h, read(h, n.r)))
      [] n.tag = "Star" -> fmt_star(read(h, n.l), fmt(h, read(h, n.l)))

\* a|(b|a), (a|b)*, (a.b)*, ((a|b)|a).b and (a|b.(a|b))*: alternations at
\* the root, under an Alt, under a Seq and under a Star.
RenderPlans ==
    {PAlt(PChar("a"), PAlt(PChar("b"), PChar("a"))),
     PStar(PAlt(PChar("a"), PChar("b"))),
     PStar(PSeq(PChar("a"), PChar("b"))),
     PSeq(PAlt(PAlt(PChar("a"), PChar("b")), PChar("a")), PChar("b")),
     PStar(PAlt(PChar("a"), PSeq(PChar("b"), PAlt(PChar("a"), PChar("b")))))}

RenderInit ==
    /\ plan \in SmallPlans \cup RenderPlans
    /\ cap0 = DEFAULT_CAPACITY
    /\ text = <<>>
    /\ heap = <<>>
    /\ regs = <<>>
    /\ pc = "plan"
    /\ obs = NoObs
    /\ va = VecAlloc_new(0)
    /\ issued = <<>>
    /\ alast = NoCall

\* format!("{:?}", node) of the root of the latest Regex.
RenderStep ==
    /\ pc = "ready" /\ Sound
    /\ obs' = [op |-> "fmt", on |-> Len(regs),
               s |-> fmt(heap, read(heap, Cur.re.tree)),
               result |-> FALSE, ub |-> FALSE]
    /\ pc' = "done"
    /\ UNCHANGED <<text, plan, cap0, heap, regs, arenaVars>>

RenderNext ==
    \/ Compile
    \/ DerStep
    \/ SimpStep
    \/ RenderStep

RenderSpec == RenderInit /\ [][RenderNext]_vars

\* The tree the rendered Regex holds.
Rendered == Unfold(heap, regs[obs.on].re.tree)

\* The text of a tree in which an Alt carries its own parenthesis pair
\* unless it is a direct child of an Alt.
RECURSIVE ParenUnlessUnderAlt(_, _)
ParenUnlessUnderAlt(bp, underAlt) ==
    CASE bp.tag = "Zero" -> <<"0">>
      [] bp.tag = "One" -> <<"1">>
      [] bp.tag = "Char" -> <<"'", bp.c, "'">>
      [] bp.tag = "Seq" ->
            ParenUnlessUnderAlt(bp.l, FALSE) \o <<".">> \o
            ParenUnlessUnderAlt(bp.r, FALSE)
      [] bp.tag = "Alt" ->
            (IF underAlt THEN <<>> ELSE <<"(">>) \o
            ParenUnlessUnderAlt(bp.l, TRUE) \o <<"|">> \o
            ParenUnlessUnderAlt(bp.r, TRUE) \o
            (IF underAlt THEN <<>> ELSE <<")">>)
      [] bp.tag = "Star" ->
            IF bp.l.tag \in {"Zero", "One", "Char"}
            THEN ParenUnlessUnderAlt(bp.l, FALSE) \o <<"*">>
            ELSE <<"(">> \o ParenUnlessUnderAlt(bp.l, TRUE) \o <<")", "*">>

\* The text of a tree in which an Alt carries its own parenthesis pair
\* exactly when its parent is a Seq, and the inner of a Star is wrapped
\* exactly when it is a Seq or a Star.
RECURSIVE ParenUnderSeq(_, _)
ParenUnderSeq(bp, parent) ==
    CASE bp.tag = "Zero" -> <<"0">>
      [] bp.tag = "One" -> <<"1">>
      [] bp.tag = "Char" -> <<"'", bp.c, "'">>
      [] bp.tag = "Seq" ->
            ParenUnderSeq(bp.l, "Seq") \o <<".">> \o ParenUnderSeq(bp.r, "Seq")
      [] bp.tag = "Alt" ->
            (IF parent = "Seq" THEN <<"(">> ELSE <<>>) \o
            ParenUnderSeq(bp.l, "Alt") \o <<"|">> \o
            ParenUnderSeq(bp.r, "Alt") \o
            (IF parent = "Seq" THEN <<")">> ELSE <<>>)
      [] bp.tag = "Star" ->
            (IF bp.l.tag \in {"Seq", "Star"} THEN <<"(">> ELSE <<>>) \o
            ParenUnderSeq(bp.l, "Star") \o
            (IF bp.l.tag \in {"Seq", "Star"} THEN <<")">> ELSE <<>>) \o
            <<"*">>

RECURSIVE StarFree(_)
StarFree(bp) ==
    CASE bp.tag \in {"Alt", "Seq"} -> StarFree(bp.l) /\ StarFree(bp.r)
      [] bp.tag = "Star" -> FALSE
      [] OTHER -> TRUE

\* C15 as stated: in the text of a tree, every Alt that is the root, or is
\* not a direct child of another Alt, is written "(a|b)" with one
\* enclosing parenthesis pair, and an Alt directly under an Alt is written
\* flattened.  Stated of the trees without a Star.
C15_AltParenthesized ==
    (obs.op = "fmt" /\ StarFree(Rendered)) =>
        obs.s = ParenUnlessUnderAlt(Rendered, FALSE)

\* C15, amended: an Alt is written "(a|b)" with its own parenthesis pair
\* exactly when it is a direct operand of a Seq; an Alt that is the root, a
\* direct child of another Alt or the inner of a Star is written "a|b"
\* with no pair of its own.
C15_AltParenthesizedUnderSeq ==
    obs.op = "fmt" => obs.s = ParenUnderSeq(Rendered, "Root")

\* ((a|b)|a).b is written ('a'|'b'|'a').'b'.
C15_Witness ==
    /\ obs.op = "fmt" /\ obs.on = 1
    /\ plan = PSeq(PAlt(PAlt(PChar("a"), PChar("b")), PChar("a")), PChar("b"))
    /\ Rendered = plan
    /\ obs.s = <<"(", "'", "a", "'", "|", "'", "b", "'", "|", "'", "a", "'",
                 ")", ".", "'", "b", "'">>

\* C16: Repeat(a) is written as the text of a followed by "*" when a is a
\* Literal, Unit or Empty, and as "(" text of a ")*" for every other inner
\* variant (Alt, Seq, Repeat).
C16_StarParenthesized ==
    (obs.op = "fmt" /\ Rendered.tag = "Star") =>
        obs.s = IF Rendered.l.tag \in {"Zero", "One", "Char"}
                THEN fmt(heap, read(heap, read(heap, regs[obs.on].re.tree).l))
                         \o <<"*">>
                ELSE <<"(">> \o
                     fmt(heap, read(heap, read(heap, regs[obs.on].re.tree).l))
                     \o <<")", "*">>

(***************************************************************************)
(* The derivative, constructor by constructor.                             *)
(***************************************************************************)
RECURSIVE NullableRule(_)
NullableRule(bp) ==
    CASE bp.tag = "Zero" -> FALSE
      [] bp.tag = "One" -> TRUE
      [] bp.tag = "Char" -> FALSE
      [] bp.tag = "Alt" -> NullableRule(bp.l) \/ NullableRule(bp.r)
      [] bp.tag = "Seq" -> NullableRule(bp.l) /\ NullableRule(bp.r)
      [] bp.tag = "Star" -> TRUE

RECURSIVE DeriveRule(_, _)
DeriveRule(bp, c) ==
    CASE bp.tag = "Zero" -> PZero
      [] bp.tag = "One" -> PZero
      [] bp.tag = "Char" -> IF bp.c = c THEN POne ELSE PZero
      [] bp.tag = "Alt" -> PAlt(DeriveRule(bp.l, c), DeriveRule(bp.r, c))
      [] bp.tag = "Seq" ->
            IF NullableRule(bp.l)
            THEN PAlt(PSeq(DeriveRule(bp.l, c), bp.r), DeriveRule(bp.r, c))
            ELSE PSeq(DeriveRule(bp.l, c), bp.r)
      [] bp.tag = "Star" -> PSeq(DeriveRule(bp.l, c), bp)

\* p, the derivative of the node at q, has every new node in a slot of
\* arena d that no other node of the derivative occupies, and carries the
\* right operand of a Seq and the Star node forward as the pointers of the
\* source.
RECURSIVE Carried(_, _, _, _)
Carried(h, d, p, q) ==
    LET n == read(h, q)
        m == read(h, p)
    IN  CASE n.tag = "Zero" -> p = q
          [] n.tag \in {"One", "Char"} -> p.a = d /\ Valid(h, p)
          [] n.tag = "Alt" ->
                /\ p.a = d /\ Valid(h, p) /\ m.tag = "Alt"
                /\ Carried(h, d, m.l, n.l)
                /\ Carried(h, d, m.r, n.r)
          [] n.tag = "Seq" /\ NullableRule(Unfold(h, n.l)) ->
                /\ p.a = d /\ Valid(h, p) /\ m.tag = "Alt"
                /\ m.l.a = d /\ Valid(h, m.l) /\ m.l # p
                /\ read(h, m.l).tag = "Seq"
                /\ read(h, m.l).r = n.r /\ n.r.a # d
                /\ Carried(h, d, read(h, m.l).l, n.l)
                /\ Carried(h, d, m.r, n.r)
          [] n.tag = "Seq" ->
                /\ p.a = d /\ Valid(h, p) /\ m.tag = "Seq"
                /\ m.r = n.r /\ n.r.a # d
                /\ Carried(h, d, m.l, n.l)
          [] n.tag = "Star" ->
                /\ p.a = d /\ Valid(h, p) /\ m.tag = "Seq"
                /\ m.r = q /\ q.a # d
                /\ Carried(h, d, m.l, n.l)

\* The slots of arena d that the tree at p occupies, one entry per node.
RECURSIVE SlotsIn(_, _, _)
SlotsIn(h, d, p) ==
    IF ~Valid(h, p) \/ p.a # d THEN <<>>
    ELSE LET n == read(h, p)
         IN  <<p.i>> \o
             (IF n.tag \in {"Alt", "Seq", "Star"} THEN SlotsIn(h, d, n.l)
              ELSE <<>>) \o
             (IF n.tag \in {"Alt", "Seq"} THEN SlotsIn(h, d, n.r) ELSE <<>>)

Distinct(s) == \A i, j \in 1 .. Len(s) : s[i] = s[j] => i = j

\* C17: der(c) yields exactly the tree of the per-constructor rules; the
\* right operand of a Seq and the Star node are carried forward as the
\* source's own pointers, and every new node occupies a slot of its own in
\* the arena of the derivative.
C17_DerivativeRules ==
    \A k \in 1 .. Len(regs) :
        regs[k].op = "der" =>
            /\ TreeOf(k) = DeriveRule(TreeOf(regs[k].from), regs[k].ch)
            /\ Carried(heap, regs[k].re.alloc, regs[k].re.tree,
                       regs[regs[k].from].re.tree)
            /\ Distinct(SlotsIn(heap, regs[k].re.alloc, regs[k].re.tree))

\* a*b by a is (1.a*).b|0: the Alt arm of Seq over the Star arm, with b and
\* a* the nodes of the source.
C17_Witness ==
    /\ Len(regs) = 2 /\ plan = AStarB /\ TreeOf(1) = AStarB
    /\ regs[2].op = "der" /\ regs[2].ch = "a"
    /\ TreeOf(2) = PAlt(PSeq(PSeq(POne, PStar(PChar("a"))), PChar("b")), PZero)
    /\ read(heap, read(heap, regs[2].re.tree).l).r
           = read(heap, regs[1].re.tree).r
    /\ read(heap, read(heap, read(heap, regs[2].re.tree).l).l).r
           = read(heap, regs[1].re.tree).l

(***************************************************************************)
(* The simplifier as a bottom-up rewrite.                                  *)
(***************************************************************************)
RECURSIVE SimplifyRule(_)
SimplifyAlt(a, b) ==
    IF a.tag = "Zero" THEN b
    ELSE IF b.tag = "Zero" THEN a
    ELSE IF a = b THEN a
    ELSE PAlt(a, b)

SimplifySeq(a, b) ==
    IF a.tag = "Zero" \/ b.tag = "Zero" THEN PZero
    ELSE IF a.tag = "One" THEN b
    ELSE IF b.tag = "One" THEN a
    ELSE PSeq(a, b)

SimplifyRule(bp) ==
    CASE bp.tag = "Alt" -> SimplifyAlt(SimplifyRule(bp.l), SimplifyRule(bp.r))
      [] bp.tag = "Seq" -> SimplifySeq(SimplifyRule(bp.l), SimplifyRule(bp.r))
      [] OTHER -> bp

\* C18: simp yields the bottom-up rewrite of its tree: the Alt and Seq
\* rules applied to the simplified operands, in their order; Zero, One,
\* Char and Star unchanged, the inner expression of a Star included.
C18_SimplifyRules ==
    \A k \in 1 .. Len(regs) :
        regs[k].op = "simp" => TreeOf(k) = SimplifyRule(TreeOf(regs[k].from))

\* (1.a)*.(b|0) simplifies to (1.a)*.b: the Alt rule fires, the Seq is
\* rebuilt, the Star keeps its inner 1.a.
C18_Witness ==
    /\ Len(regs) = 2 /\ regs[2].op = "simp"
    /\ TreeOf(1) = StarOneAThenB
    /\ TreeOf(2) = PSeq(PStar(PSeq(POne, PChar("a"))), PChar("b"))

(***************************************************************************)
(* Node reuse in the simplifier.  simp_rec visits every Alt and Seq that   *)
(* is not inside a Star, operands first.                                   *)
(***************************************************************************)
\* A rewrite rule of simp_rec fires on operands simplified to a and b.
RuleFires(tag, a, b) ==
    IF tag = "Alt" THEN a.tag = "Zero" \/ b.tag = "Zero" \/ a = b
    ELSE a.tag \in {"Zero", "One"} \/ b.tag \in {"Zero", "One"}

ChildChanged(bp) ==
    SimplifyRule(bp.l) # bp.l \/ SimplifyRule(bp.r) # bp.r

\* The Alt and Seq nodes outside every Star with at least one changed child.
RECURSIVE ChangedChildCount(_)
ChangedChildCount(bp) ==
    IF bp.tag \in {"Alt", "Seq"}
    THEN ChangedChildCount(bp.l) + ChangedChildCount(bp.r) +
         (IF ChildChanged(bp) THEN 1 ELSE 0)
    ELSE 0

\* Those of them on which no rewrite rule fires.
RECURSIVE RebuiltCount(_)
RebuiltCount(bp) ==
    IF bp.tag \in {"Alt", "Seq"}
    THEN RebuiltCount(bp.l) + RebuiltCount(bp.r) +
         (IF /\ ChildChanged(bp)
             /\ ~RuleFires(bp.tag, SimplifyRule(bp.l), SimplifyRule(bp.r))
          THEN 1 ELSE 0)
    ELSE 0

\* The occupancy of the arena of Regex k.
Occupancy(k) == heap[regs[k].re.alloc].len

\* C19 as stated: the occupancy simp leaves in its arena is the number of
\* Alt and Seq nodes with at least one changed child; a tree that is
\* already simple is returned as the source root with occupancy 0.
C19_AllocPerChangedNode ==
    \A k \in 1 .. Len(regs) :
        regs[k].op = "simp" =>
            /\ Occupancy(k) = ChangedChildCount(TreeOf(regs[k].from))
            /\ TreeOf(regs[k].from) = SimplifyRule(TreeOf(regs[k].from)) =>
                   /\ regs[k].re.tree = regs[regs[k].from].re.tree
                   /\ Occupancy(k) = 0

\* C19, amended: the occupancy simp leaves in its arena is the number of
\* Alt and Seq nodes, outside every Star, with at least one changed child
\* and on which no rewrite rule fires; a tree that simp leaves as it is, is
\* returned as the source root with occupancy 0.
C19_AllocPerRebuiltNode ==
    \A k \in 1 .. Len(regs) :
        regs[k].op = "simp" =>
            /\ Occupancy(k) = RebuiltCount(TreeOf(regs[k].from))
            /\ TreeOf(k) = TreeOf(regs[k].from) =>
                   /\ regs[k].re.tree = regs[regs[k].from].re.tree
                   /\ Occupancy(k) = 0

\* (1.a)*.(b|0) is rebuilt with one allocation, the Seq, over the Star of
\* the source; simplifying the result again allocates nothing and returns
\* the same root.
C19_Witness ==
    /\ Len(regs) = 3 /\ regs[2].op = "simp" /\ regs[3].op = "simp"
    /\ TreeOf(1) = StarOneAThenB
    /\ Occupancy(2) = 1
    /\ regs[2].re.tree.a = regs[2].re.alloc
    /\ read(heap, regs[2].re.tree).l = read(heap, regs[1].re.tree).l
    /\ Occupancy(3) = 0
    /\ regs[3].re.tree = regs[2].re.tree

(***************************************************************************)
(* The Zero root and the empty language.                                   *)
(***************************************************************************)
\* The language of a tree is empty.
RECURSIVE EmptyLang(_)
EmptyLang(bp) ==
    CASE bp.tag = "Zero" -> TRUE
      [] bp.tag = "Alt" -> EmptyLang(bp.l) /\ EmptyLang(bp.r)
      [] bp.tag = "Seq" -> EmptyLang(bp.l) \/ EmptyLang(bp.r)
      [] OTHER -> FALSE

\* The derivative of a tree by a string, by the rules.
RECURSIVE DeriveAll(_, _)
DeriveAll(bp, s) ==
    IF s = <<>> THEN bp ELSE DeriveAll(DeriveRule(bp, Head(s)), Tail(s))

\* The lengths of the prefixes of s that no extension brings into the
\* language of bp.
DeadPrefixes(bp, s) ==
    {m \in 0 .. Len(s) : EmptyLang(DeriveAll(bp, SubSeq(s, 1, m)))}

Least(S) == CHOOSE m \in S : \A k \in S : m <= k

\* The numbers of characters consumed at which ders tests the root, on an
\* input of length len: every character while fewer than four remain,
\* every fourth before.
RECURSIVE Entries(_, _)
Entries(e, len) ==
    {e} \cup (IF e >= len THEN {}
              ELSE IF len - e >= 4 THEN Entries(e + 4, len)
              ELSE Entries(e + 1, len))

\* The root simp returns is Zero exactly when the language is empty.
ZeroRootIffEmpty ==
    \A k \in 1 .. Len(regs) :
        regs[k].op = "simp" =>
            (RootTag(k) = "Zero" <=> EmptyLang(TreeOf(regs[k].from)))

\* The characters the observed is_match consumed, and whether it ended on
\* a Zero root.
Consumed == ders_consumed(clone(At(obs.on)), obs.s, cap0)
Fired == DriverTag(At(obs.on), obs.s) = "Zero"

\* An is_match that ends on a Zero root has consumed a prefix that no
\* extension brings into the language.
NeverFiresEarly ==
    Fired => /\ Consumed \in DeadPrefixes(TreeOf(obs.on), obs.s)
             /\ \A t \in Strs :
                  ~InLang(TreeOf(obs.on), SubSeq(obs.s, 1, Consumed) \o t)

FiringTests ==
    {e \in Entries(0, Len(obs.s)) :
        IF e = 0 THEN TreeOf(obs.on).tag = "Zero"
        ELSE \E m \in DeadPrefixes(TreeOf(obs.on), obs.s) : m <= e}

====
